---- MODULE Spec2Model ----
(***************************************************************************)
(* Model of the automatic mechanic-assignment engine of the marketplace    *)
(* database: calculate_distance, find_nearest_mechanic, the BEFORE INSERT  *)
(* trigger assign_mechanic_to_service on service_requests, the row-level   *)
(* security policies in force on the tables it touches, and the client     *)
(* services that write those tables (createServiceRequest,                 *)
(* updateServiceRequest, completeService, toggleAvailability,              *)
(* updateMechanic, createMechanic, updateProfile).                         *)
(*                                                                         *)
(* Tables are state variables holding the COMMITTED rows.  An INSERT into  *)
(* service_requests is a transaction of three steps (statement start, the  *)
(* BEFORE INSERT trigger, row insert + commit); what it has written so far *)
(* lives in tx[s] and becomes visible only at commit.  Other statements    *)
(* (single-row UPDATEs) are atomic actions that interleave with it.        *)
(***************************************************************************)
EXTENDS Integers, Sequences, FiniteSets, TLC

\* SQL NULL / JS null.  No identifier, coordinate or radius has this value.
NULL == -1

\* ---------------------------------------------------------------- bounds
\* Rows of mechanics and customer accounts, concurrent sessions, requests
\* created, statements on the registry, UPDATEs of service_requests, requests
\* created side by side where nothing else runs.
NumMechanics == 2
NumCustomers == 2
NumSessions == 2
MaxRequests == 1
MaxOps == 1
MaxUpdates == 1
MaxNear == 2
MaxOrders == 3
NumDates == 2
NumSequences == 2
NumProducts == 2
MaxReviews == 2
MaxReviewChanges == 2
MaxParts == 2
MaxAttempts == 4
MaxCalls == 2
MaxCallbacks == 2

\* ------------------------------------------------------------ identifiers
MechanicIds == 1 .. NumMechanics
MechanicUser(m) == 10 + m
MechanicUserIds == {MechanicUser(m) : m \in MechanicIds}
CustomerIds == {20 + c : c \in 1 .. NumCustomers}
UserIds == MechanicUserIds \cup CustomerIds
Sessions == 1 .. NumSessions
RequestIds == 1 .. MaxRequests

\* service_request_status enum
Statuses == {"pending", "assigned", "in_progress", "parts_recommended", "completed", "cancelled"}

\* Coordinates are whole degrees on a lattice where every trigonometric
\* value of the haversine formula is rational.
Lats == {0, 60}
Lons == {0, 60}

\* mechanics.service_radius_km DEFAULT 10
DefaultRadiusKm == 10
\* Radii in km: the default, one equal to a lattice distance, one between two.
Radii == {DefaultRadiusKm, 3220, 7000}

\* ------------------------------------------------------ calculate_distance
\* 2*sin(radians(d)/2) for a difference d of lattice degrees.
SinHalf(d) == CASE d = 0 -> 0 [] d = 60 -> 1 [] d = -60 -> -1

\* 2*cos(radians(lat)) for a lattice latitude.
Cos(lat) == CASE lat = 0 -> 2 [] lat = 60 -> 1 [] lat = -60 -> 1

\* r * 2*atan2(sqrt(a), sqrt(1-a)) with r = 6371, for a = n/16, in km rounded
\* up to a whole km (so that d <= radius keeps its truth value for every
\* whole-km radius, and d1 <= d2 for every pair of lattice distances).
ArcKm == <<0, 3220, 4605, 5707, 6672, 7559, 8398, 9210, 10008,
           10807, 11618, 12457, 13344, 14309, 15411, 16796, 20016>>

\* The function with a missing coordinate taken as 0 (COALESCE(x, 0)).
calculate_distance_mut_coalesce(lat1, lon1, lat2, lon2) ==
  LET z(x) == IF x = NULL THEN 0 ELSE x
      dlat == z(lat2) - z(lat1)
      dlon == z(lon2) - z(lon1)
      a == 4 * SinHalf(dlat) * SinHalf(dlat)
           + Cos(z(lat1)) * Cos(z(lat2)) * SinHalf(dlon) * SinHalf(dlon)
  IN ArcKm[a + 1]

\* The function with cos(radians(lat1)) taken twice.
calculate_distance_mut_cos_lat1(lat1, lon1, lat2, lon2) ==
  IF lat1 = NULL \/ lon1 = NULL \/ lat2 = NULL \/ lon2 = NULL
  THEN NULL
  ELSE LET dlat == lat2 - lat1
           dlon == lon2 - lon1
           a == 4 * SinHalf(dlat) * SinHalf(dlat)
                + Cos(lat1) * Cos(lat1) * SinHalf(dlon) * SinHalf(dlon)
       IN ArcKm[a + 1]

calculate_distance(lat1, lon1, lat2, lon2) ==
  IF lat1 = NULL \/ lon1 = NULL \/ lat2 = NULL \/ lon2 = NULL
  THEN NULL
  ELSE LET dlat == lat2 - lat1
           dlon == lon2 - lon1
           \* 16*a, a = sin(dlat/2)^2 + cos(lat1)*cos(lat2)*sin(dlon/2)^2
           a == 4 * SinHalf(dlat) * SinHalf(dlat)
                + Cos(lat1) * Cos(lat2) * SinHalf(dlon) * SinHalf(dlon)
       IN ArcKm[a + 1]

VARIABLES
  users,             \* users table: [UserIds -> row]
  mechanics,         \* mechanics table: [subset of MechanicIds -> row]
  service_requests,  \* committed service_requests rows: [subset of RequestIds -> row]
  notifications,     \* committed notifications rows, in commit order
  orders,            \* committed orders rows: [ids -> row]
  auth_context,      \* AuthProvider: user, the auth session, the callbacks in flight
  cart,              \* cart rows: [ids -> row]
  order_items,       \* committed order_items rows
  retry,             \* retryOperation: the call in progress and what its attempts did
  service_parts,     \* committed service_parts rows, in commit order
  reviews,           \* reviews rows: [ids -> row]
  products,          \* products rows: [ProductIds -> rating in hundredths, review_count]
  tx,                \* per session: the INSERT transaction in progress
  next_id,           \* ids handed out so far (gen_random_uuid)
  ops,               \* number of statements run on the registry so far (bounded)
  updated,           \* number of UPDATEs of service_requests so far (bounded)
  created,           \* history: per request id, what its creation did
  last               \* history: the last statement executed

vars == <<users, mechanics, service_requests, notifications, orders, auth_context, cart, order_items, retry, service_parts, reviews, products, tx, next_id, ops,
          updated, created, last>>

\* ----------------------------------------------------- row-level security
\* A database session: role 'authenticated' with auth.uid() = uid, or a role
\* that bypasses row-level security (service_role, the table owner).
Auths == {[role |-> "service_role", uid |-> NULL]}
         \cup {[role |-> "authenticated", uid |-> u] : u \in UserIds}

bypass_rls(auth) == auth.role # "authenticated"

\* "Users can view profiles" (USING)
users_select(auth, u) ==
  \/ bypass_rls(auth)
  \/ auth.uid = u
  \/ (users[u].role \in {"vendor", "mechanic"} /\ users[u].is_active)

\* The policy without "OR is_approved = true": own rows only.
mechanics_select_mut_own(auth, m) ==
  bypass_rls(auth) \/ auth.uid = mechanics[m].user_id

\* "Mechanics can view all data"
mechanics_select(auth, m) ==
  \/ bypass_rls(auth)
  \/ auth.uid = mechanics[m].user_id
  \/ mechanics[m].is_approved

\* -------------------------------------------------- find_nearest_mechanic
\* The comparison with an unknown result taken as true.
sql_le_mut_null_true(d, r) == d = NULL \/ r = NULL \/ d <= r

\* The comparison as d < r.
sql_le_mut_lt(d, r) == d # NULL /\ r # NULL /\ d < r

\* SQL comparison d <= r: unknown (row filtered out) when an operand is NULL.
sql_le(d, r) == d # NULL /\ r # NULL /\ d <= r

\* The WHERE clause without u.is_active = true, in the query and in the
\* policy on users.
in_where_mut_no_active(auth, m, request_lat, request_lon) ==
  LET u == mechanics[m].user_id
  IN /\ mechanics_select(auth, m)
     /\ bypass_rls(auth) \/ auth.uid = u \/ users[u].role \in {"vendor", "mechanic"}
     /\ mechanics[m].is_available = TRUE
     /\ mechanics[m].is_approved = TRUE
     /\ users[u].latitude # NULL
     /\ users[u].longitude # NULL
     /\ sql_le(calculate_distance(users[u].latitude, users[u].longitude,
                                  request_lat, request_lon),
               mechanics[m].service_radius_km)

\* The WHERE clause with a capacity check: a mechanic who has a request in
\* status 'assigned' is skipped.
in_where_mut_capacity(auth, m, request_lat, request_lon) ==
  LET u == mechanics[m].user_id
  IN /\ mechanics_select(auth, m)
     /\ users_select(auth, u)
     /\ mechanics[m].is_available = TRUE
     /\ mechanics[m].is_approved = TRUE
     /\ users[u].is_active = TRUE
     /\ users[u].latitude # NULL
     /\ users[u].longitude # NULL
     /\ sql_le(calculate_distance(users[u].latitude, users[u].longitude,
                                  request_lat, request_lon),
               mechanics[m].service_radius_km)
     /\ ~\E id \in DOMAIN service_requests :
          service_requests[id].mechanic_id = m /\ service_requests[id].status = "assigned"

\* The WHERE clause without m.is_available = true.
in_where_mut_no_available(auth, m, request_lat, request_lon) ==
  LET u == mechanics[m].user_id
  IN /\ mechanics_select(auth, m)
     /\ users_select(auth, u)
     /\ mechanics[m].is_approved = TRUE
     /\ users[u].is_active = TRUE
     /\ users[u].latitude # NULL
     /\ users[u].longitude # NULL
     /\ sql_le(calculate_distance(users[u].latitude, users[u].longitude,
                                  request_lat, request_lon),
               mechanics[m].service_radius_km)

\* The FROM/JOIN/WHERE of find_nearest_mechanic for one mechanics row, as
\* seen by the session running it.
in_where(auth, m, request_lat, request_lon) ==
  LET u == mechanics[m].user_id
  IN /\ mechanics_select(auth, m)
     /\ users_select(auth, u)
     /\ mechanics[m].is_available = TRUE
     /\ mechanics[m].is_approved = TRUE
     /\ users[u].is_active = TRUE
     /\ users[u].latitude # NULL
     /\ users[u].longitude # NULL
     /\ sql_le(calculate_distance(users[u].latitude, users[u].longitude,
                                  request_lat, request_lon),
               mechanics[m].service_radius_km)

\* The ORDER BY key of find_nearest_mechanic.
order_key(m, request_lat, request_lon) ==
  calculate_distance(users[mechanics[m].user_id].latitude,
                     users[mechanics[m].user_id].longitude,
                     request_lat, request_lon)

\* The query with ORDER BY ... DESC.
find_nearest_mechanic_mut_desc(auth, request_lat, request_lon) ==
  LET rows == {m \in DOMAIN mechanics : in_where(auth, m, request_lat, request_lon)}
  IN IF rows = {} THEN {NULL}
     ELSE {m \in rows : \A k \in rows :
             order_key(m, request_lat, request_lon) >= order_key(k, request_lat, request_lon)}

\* The values find_nearest_mechanic can return: NULL when no row passes the
\* WHERE clause, else the id of a first row in ORDER BY ... ASC order.  Rows
\* with equal keys come in storage order, which SQL leaves open: every one
\* of them is a possible result.
find_nearest_mechanic(auth, request_lat, request_lon) ==
  LET rows == {m \in DOMAIN mechanics : in_where(auth, m, request_lat, request_lon)}
  IN IF rows = {} THEN {NULL}
     ELSE {m \in rows : \A k \in rows :
             order_key(m, request_lat, request_lon) <= order_key(k, request_lat, request_lon)}

\* ------------------------------------------------------------- registries
UserRow(u, active, lat, lon) ==
  [role |-> IF u \in MechanicUserIds THEN "mechanic" ELSE "customer",
   is_active |-> active, latitude |-> lat, longitude |-> lon]

MechanicRow(m, available, approved, radius) ==
  [user_id |-> MechanicUser(m), is_available |-> available,
   is_approved |-> approved, service_radius_km |-> radius, total_services |-> 0]

\* Every users table of the model: customers are active accounts without a
\* stored position, a mechanic's account is anything the columns allow.
AllUsers ==
  {f \in [UserIds -> {UserRow(u, a, la, lo) :
                        u \in UserIds, a \in BOOLEAN,
                        la \in Lats \cup {NULL}, lo \in Lons \cup {NULL}}] :
     \A u \in UserIds :
       /\ f[u].role = UserRow(u, TRUE, NULL, NULL).role
       /\ u \in CustomerIds => f[u] = UserRow(u, TRUE, NULL, NULL)}

\* Every mechanics table of the model, the empty one included.
AllMechanics ==
  UNION {{f \in [D -> {MechanicRow(m, av, ap, r) :
                         m \in D, av \in BOOLEAN, ap \in BOOLEAN, r \in Radii}] :
            \A m \in D : f[m].user_id = MechanicUser(m)} : D \in SUBSET MechanicIds}

NoTx == [pc |-> "idle"]

\* ----------------------------------------------- specification SpecFind
\* find_nearest_mechanic called on its own (select find_nearest_mechanic(..))
\* in every registry state, by every kind of session, at every location.
InitFind ==
  /\ users \in AllUsers
  /\ mechanics \in AllMechanics
  /\ service_requests = <<>>
  /\ notifications = <<>>
  /\ orders = <<>>
  /\ auth_context = <<>>
  /\ cart = <<>>
  /\ order_items = {}
  /\ retry = <<>>
  /\ service_parts = <<>>
  /\ reviews = <<>>
  /\ products = <<>>
  /\ tx = [s \in Sessions |-> NoTx]
  /\ next_id = 0
  /\ ops = 0
  /\ updated = 0
  /\ created = <<>>
  /\ last = [op |-> "none"]

CallFindNearest ==
  \E auth \in {a \in Auths : a.uid \notin MechanicUserIds},
     request_lat \in Lats \cup {NULL}, request_lon \in Lons \cup {NULL} :
    \E id \in find_nearest_mechanic(auth, request_lat, request_lon) :
      /\ last.op = "none"
      /\ last' = [op |-> "find_nearest_mechanic",
                  lat |-> request_lat, lon |-> request_lon, result |-> id]
      /\ UNCHANGED <<users, mechanics, service_requests, notifications, tx,
                     next_id, ops, updated, created, orders, auth_context, cart, order_items, retry, service_parts, reviews, products>>

NextFind == CallFindNearest

SpecFind == InitFind /\ [][NextFind]_vars

\* ------------------------------------------- specification SpecDistance
\* calculate_distance called on its own with every combination of present
\* and missing coordinates.
InitDistance ==
  /\ users = <<>>
  /\ mechanics = <<>>
  /\ service_requests = <<>>
  /\ notifications = <<>>
  /\ orders = <<>>
  /\ auth_context = <<>>
  /\ cart = <<>>
  /\ order_items = {}
  /\ retry = <<>>
  /\ service_parts = <<>>
  /\ reviews = <<>>
  /\ products = <<>>
  /\ tx = [s \in Sessions |-> NoTx]
  /\ next_id = 0
  /\ ops = 0
  /\ updated = 0
  /\ created = <<>>
  /\ \E lat1 \in Lats \cup {NULL}, lon1 \in Lons \cup {NULL},
        lat2 \in Lats \cup {NULL}, lon2 \in Lons \cup {NULL} :
       last = [op |-> "input", lat1 |-> lat1, lon1 |-> lon1, lat2 |-> lat2, lon2 |-> lon2]

CallCalculateDistance ==
  /\ last.op = "input"
  /\ last' = [last EXCEPT !.op = "calculate_distance"]
              @@ [result |-> calculate_distance(last.lat1, last.lon1, last.lat2, last.lon2)]
  /\ UNCHANGED <<users, mechanics, service_requests, notifications, tx,
                 next_id, ops, updated, created, orders, auth_context, cart, order_items, retry, service_parts, reviews, products>>

NextDistance == CallCalculateDistance

SpecDistance == InitDistance /\ [][NextDistance]_vars

\* ------------------------------------------- policies on the written tables
\* The subquery without its WHERE clause.
own_mechanics_mut_all(auth) == DOMAIN mechanics

\* SELECT id FROM mechanics WHERE user_id = (select auth.uid())
own_mechanics(auth) == {m \in DOMAIN mechanics : mechanics[m].user_id = auth.uid}

\* "View own or assigned service requests" (USING); the same expression is
\* the USING and the WITH CHECK of "Update own or assigned service requests".
service_requests_own_or_assigned(auth, row) ==
  \/ bypass_rls(auth)
  \/ row.customer_id = auth.uid
  \/ row.mechanic_id \in own_mechanics(auth)

\* "Customers can create service requests" (WITH CHECK)
service_requests_insert(auth, row) ==
  bypass_rls(auth) \/ row.customer_id = auth.uid

\* notifications has row-level security enabled and policies for SELECT and
\* UPDATE only: a role subject to it may insert no row.
notifications_insert(auth) == bypass_rls(auth)

\* "Mechanics can update own data" (USING and WITH CHECK) and
\* "Mechanics can insert own data" (WITH CHECK)
mechanics_own(auth, row) == bypass_rls(auth) \/ auth.uid = row.user_id

\* "Users can update own profile"
users_update(auth, u) == bypass_rls(auth) \/ auth.uid = u

\* ---------------------------------------------- assign_mechanic_to_service
Notification(user_id, type, path, id) ==
  [user_id |-> user_id, type |-> type, action_url |-> <<path, id>>]

\* The assignment also overwriting the request's description.
Assigned_mut_description(new, assigned_mechanic_id) ==
  [new |-> [new EXCEPT !.mechanic_id = assigned_mechanic_id, !.status = "assigned",
                       !.issue_description = "assigned"],
   inserts |-> <<Notification(mechanics[assigned_mechanic_id].user_id,
                              "service_assigned", "/mechanic/services/", new.id),
                 Notification(new.customer_id,
                              "mechanic_assigned", "/customer/services/", new.id)>>,
   found |-> assigned_mechanic_id, raises |-> FALSE]

\* What one run of the trigger function can do with the row new: the row it
\* returns, the notifications it inserts, the mechanic it found (NULL when
\* none, or when find_nearest_mechanic was not called) and whether it raises.
\* SELECT ... INTO without STRICT raises nothing when no row is found.
Assigned(new, assigned_mechanic_id) ==
  [new |-> [new EXCEPT !.mechanic_id = assigned_mechanic_id, !.status = "assigned"],
   inserts |-> <<Notification(mechanics[assigned_mechanic_id].user_id,
                              "service_assigned", "/mechanic/services/", new.id),
                 Notification(new.customer_id,
                              "mechanic_assigned", "/customer/services/", new.id)>>,
   found |-> assigned_mechanic_id, raises |-> FALSE]

Untouched(new) == [new |-> new, inserts |-> <<>>, found |-> NULL, raises |-> FALSE]

\* The function without the guard on NEW.status and NEW.mechanic_id.
assign_mechanic_to_service_mut_unguarded(auth, new) ==
  {IF assigned_mechanic_id # NULL THEN Assigned(new, assigned_mechanic_id) ELSE Untouched(new) :
   assigned_mechanic_id \in find_nearest_mechanic(auth, new.latitude, new.longitude)}

\* The function raising an exception when no mechanic is found.
assign_mechanic_to_service_mut_raise(auth, new) ==
  IF new.status = "pending" /\ new.mechanic_id = NULL
  THEN {IF assigned_mechanic_id # NULL
        THEN Assigned(new, assigned_mechanic_id)
        ELSE [Untouched(new) EXCEPT !.raises = TRUE] :
        assigned_mechanic_id \in find_nearest_mechanic(auth, new.latitude, new.longitude)}
  ELSE {Untouched(new)}

\* The function addressing the mechanic's notification to mechanics.id
\* instead of mechanics.user_id.
assign_mechanic_to_service_mut_mechanic_id(auth, new) ==
  IF new.status = "pending" /\ new.mechanic_id = NULL
  THEN {IF assigned_mechanic_id # NULL
        THEN [Assigned(new, assigned_mechanic_id) EXCEPT
                !.inserts[1].user_id = assigned_mechanic_id]
        ELSE Untouched(new) :
        assigned_mechanic_id \in find_nearest_mechanic(auth, new.latitude, new.longitude)}
  ELSE {Untouched(new)}

\* assign_mechanic_to_service() run as the session auth on the row new.
assign_mechanic_to_service(auth, new) ==
  IF new.status = "pending" /\ new.mechanic_id = NULL
  THEN {IF assigned_mechanic_id # NULL
        THEN Assigned(new, assigned_mechanic_id)
        ELSE Untouched(new) :
        assigned_mechanic_id \in find_nearest_mechanic(auth, new.latitude, new.longitude)}
  ELSE {Untouched(new)}

\* The trigger's INSERTs as autonomous writes, visible at once.
uncommitted_visible_mut_autonomous(inserts) == inserts

\* The trigger's INSERTs run inside the inserting statement's transaction:
\* of the rows it has written, the ones other sessions can read before the
\* commit.
uncommitted_visible(inserts) == <<>>

\* The trigger created BEFORE INSERT OR UPDATE.
auto_assign_mechanic_mut_on_update(tg_op) == tg_op \in {"INSERT", "UPDATE"}

\* CREATE TRIGGER auto_assign_mechanic BEFORE INSERT ON service_requests:
\* whether the assignment runs for a statement of kind tg_op.
auto_assign_mechanic(tg_op) == tg_op = "INSERT"

\* ------------------------------------------------ INSERT INTO service_requests
ServiceRequestRow(id, customer_id, mechanic_id, status, lat, lon) ==
  [id |-> id, customer_id |-> customer_id, mechanic_id |-> mechanic_id,
   status |-> status, latitude |-> lat, longitude |-> lon,
   issue_description |-> "engine does not start"]

\* The request locations of the client calls: one where the two starting
\* positions differ in range, one where they differ in distance.
RequestLocations == {<<0, 0>>, <<60, 0>>}

StartInsert(s, auth, client, new) ==
  /\ tx[s].pc = "idle"
  /\ next_id' = next_id + 1
  /\ tx' = [tx EXCEPT ![s] = [pc |-> "before_insert", auth |-> auth, client |-> client,
                              submitted |-> new, new |-> new, inserts |-> <<>>,
                              found |-> NULL,
                              read |-> [users |-> <<>>, mechanics |-> <<>>]]]
  /\ last' = [op |-> "other"]
  /\ UNCHANGED <<users, mechanics, service_requests, notifications, ops, updated, created, orders, auth_context, cart, order_items, retry, service_parts, reviews, products>>

\* serviceRequestService.createServiceRequest: the signed-in client inserts
\* {...data, status: 'pending'}; data is a CreateServiceRequestData, which has
\* a latitude and a longitude and no mechanic_id; the id is the column default.
createServiceRequest(s) ==
  /\ next_id < MaxRequests
  /\ \E uid \in CustomerIds, customer_id \in CustomerIds, at \in RequestLocations :
    StartInsert(s, [role |-> "authenticated", uid |-> uid], TRUE,
                ServiceRequestRow(next_id + 1, customer_id, NULL, "pending", at[1], at[2]))

\* Any other INSERT INTO service_requests, by a session that bypasses
\* row-level security: every column may be given, the location may be absent.
InsertStatuses == {"pending", "in_progress"}

InsertServiceRequest(s) ==
  /\ next_id < MaxRequests
  /\ \E customer_id \in CustomerIds, mechanic_id \in DOMAIN mechanics \cup {NULL},
     status \in InsertStatuses, at \in RequestLocations \cup {<<NULL, 0>>} :
    \* rows the trigger must leave alone are tried where it would find a mechanic
    /\ (status # "pending" \/ mechanic_id # NULL) => at = <<60, 0>>
    /\ StartInsert(s, [role |-> "service_role", uid |-> NULL], FALSE,
                   ServiceRequestRow(next_id + 1, customer_id, mechanic_id, status, at[1], at[2]))

\* The end of the call with the error ignored.
throw_or_return_mut_swallow(error, data) == [throws |-> FALSE, data |-> data]

\* if (error) throw error; return serviceRequest as ServiceRequest;
throw_or_return(error, data) ==
  IF error THEN [throws |-> TRUE] ELSE [throws |-> FALSE, data |-> data]

\* The history entry of a creation that ended: what was submitted, what the
\* trigger read and did, the row as the trigger returned it, how the
\* statement ended and what the call gave its caller.
Created(t, outcome, cause) ==
  [outcome |-> outcome, cause |-> cause, client |-> t.client, auth |-> t.auth,
   submitted |-> t.submitted, row |-> t.new, inserts |-> t.inserts,
   found |-> t.found, read |-> t.read,
   returned |-> throw_or_return(outcome = "aborted", IF outcome = "aborted" THEN NULL ELSE t.new)]

\* The statement raised: its transaction is rolled back and the caller gets
\* the error.
Rollback(s, t, cause) ==
  /\ tx' = [tx EXCEPT ![s] = NoTx]
  /\ created' = created @@ (t.new.id :> Created(t, "aborted", cause))
  /\ UNCHANGED <<users, mechanics, service_requests>>

\* The BEFORE INSERT trigger runs in the statement's transaction: it reads
\* the committed registry and its INSERTs into notifications stay private to
\* the transaction.  An INSERT that row-level security rejects, or that fails
\* in storage, raises and aborts the statement.
BeforeInsertTrigger(s) ==
  /\ tx[s].pc = "before_insert"
  /\ last' = [op |-> "other"]
  /\ UNCHANGED <<next_id, ops, updated, orders, auth_context, cart, order_items, retry, service_parts, reviews, products>>
  /\ IF auto_assign_mechanic("INSERT")
     THEN \E r \in assign_mechanic_to_service(tx[s].auth, tx[s].new), failure \in BOOLEAN :
            LET t == [tx[s] EXCEPT !.new = r.new, !.inserts = r.inserts, !.found = r.found,
                                   !.read = [users |-> users, mechanics |-> mechanics]]
            IN IF r.raises
               THEN Rollback(s, t, "trigger raised") /\ UNCHANGED notifications
               ELSE IF r.inserts # <<>> /\ ~notifications_insert(tx[s].auth)
               THEN Rollback(s, t, "notification rejected") /\ UNCHANGED notifications
               ELSE IF r.inserts # <<>> /\ failure
               THEN /\ Rollback(s, t, "notification failed")
                    /\ notifications' = notifications \o uncommitted_visible(<<r.inserts[1]>>)
               ELSE /\ tx' = [tx EXCEPT ![s] = [t EXCEPT !.pc = "insert_row"]]
                    /\ notifications' = notifications \o uncommitted_visible(r.inserts)
                    /\ UNCHANGED <<users, mechanics, service_requests, created>>
     ELSE /\ tx' = [tx EXCEPT ![s].pc = "insert_row"]
          /\ UNCHANGED <<users, mechanics, service_requests, notifications, created>>

\* Column and table constraints of service_requests checked on the row the
\* trigger returned.
service_requests_constraints(row) ==
  /\ row.latitude # NULL
  /\ row.longitude # NULL
  /\ row.customer_id \in UserIds
  /\ row.mechanic_id # NULL => row.mechanic_id \in DOMAIN mechanics

\* The row is inserted and the transaction commits: the row and the
\* notifications become visible together; on any error nothing does.
InsertRowAndCommit(s) ==
  /\ tx[s].pc = "insert_row"
  /\ last' = [op |-> "other"]
  /\ UNCHANGED <<next_id, ops, updated, orders, auth_context, cart, order_items, retry, service_parts, reviews, products>>
  /\ \E failure \in BOOLEAN :
       IF failure
       THEN Rollback(s, tx[s], "row failed") /\ UNCHANGED notifications
       ELSE IF ~service_requests_constraints(tx[s].new)
       THEN Rollback(s, tx[s], "constraint") /\ UNCHANGED notifications
       ELSE IF ~(/\ service_requests_insert(tx[s].auth, tx[s].new)
                 /\ service_requests_own_or_assigned(tx[s].auth, tx[s].new))
       THEN Rollback(s, tx[s], "row rejected") /\ UNCHANGED notifications
       ELSE /\ service_requests' = service_requests @@ (tx[s].new.id :> tx[s].new)
            /\ notifications' =
                 notifications
                 \o SubSeq(tx[s].inserts, Len(uncommitted_visible(tx[s].inserts)) + 1,
                           Len(tx[s].inserts))
            /\ created' = created @@ (tx[s].new.id :> Created(tx[s], "committed", "none"))
            /\ tx' = [tx EXCEPT ![s] = NoTx]
            /\ UNCHANGED <<users, mechanics>>

\* ------------------------------------------------- UPDATE service_requests
\* Partial<ServiceRequest>: the columns an update sets.
Updates ==
  {[status |-> st] : st \in Statuses}
  \cup {[mechanic_id |-> m] : m \in MechanicIds \cup {NULL}}

\* UPDATE ... SET <updates> applied to one row.
set_columns(row, updates) ==
  [row EXCEPT !.status = IF "status" \in DOMAIN updates THEN updates.status ELSE @,
              !.mechanic_id = IF "mechanic_id" \in DOMAIN updates
                              THEN updates.mechanic_id ELSE @]

\* update_mechanic_service_count_trigger, AFTER UPDATE ON service_requests
\* WHEN (NEW.mechanic_id IS NOT NULL): the mechanics table after it ran.  Its
\* UPDATE of mechanics runs as the session that updated the request, under
\* that session's policies on mechanics; a row they hide is silently skipped.
update_mechanic_service_count(auth, old, new) ==
  IF /\ new.mechanic_id # NULL
     /\ new.status = "completed" /\ old.status # "completed"
     /\ new.mechanic_id \in DOMAIN mechanics
     /\ mechanics_select(auth, new.mechanic_id)
     /\ mechanics_own(auth, mechanics[new.mechanic_id])
  THEN [mechanics EXCEPT ![new.mechanic_id].total_services = @ + 1]
  ELSE mechanics

\* One UPDATE of the row id of service_requests, as the client services issue
\* it (.update(updates).eq('id', id)): it changes the row only when the
\* policies let the session see the row and accept the new one, and the
\* constraints hold; otherwise the statement changes nothing and the service
\* throws.
UpdateRow(auth, id, updates, op) ==
  /\ updated < MaxUpdates
  /\ id \in DOMAIN service_requests
  /\ LET old == service_requests[id]
         set == set_columns(old, updates)
         runs == IF auto_assign_mechanic("UPDATE")
                 THEN assign_mechanic_to_service(auth, set)
                 ELSE {Untouched(set)}
     IN \E r \in runs :
          /\ ~r.raises
          /\ service_requests_own_or_assigned(auth, old)
          /\ service_requests_own_or_assigned(auth, r.new)
          /\ service_requests_constraints(r.new)
          /\ r.inserts # <<>> => notifications_insert(auth)
          /\ service_requests' = [service_requests EXCEPT ![id] = r.new]
          /\ notifications' = notifications \o r.inserts
          /\ mechanics' = update_mechanic_service_count(auth, old, r.new)
  /\ updated' = updated + 1
  /\ last' = [op |-> op, id |-> id, updates |-> updates]
  /\ UNCHANGED <<users, tx, next_id, ops, created, orders, auth_context, cart, order_items, retry, service_parts, reviews, products>>

\* serviceRequestService.updateServiceRequest
updateServiceRequest ==
  \E auth \in Auths, id \in RequestIds, updates \in Updates :
    UpdateRow(auth, id, updates, "updateServiceRequest")

\* serviceRequestService.completeService
completeService ==
  \E auth \in Auths, id \in RequestIds :
    UpdateRow(auth, id, [status |-> "completed"], "completeService")

\* ------------------------------------------------------- the mechanic registry
RegistryOp ==
  /\ ops < MaxOps
  /\ ops' = ops + 1
  /\ last' = [op |-> "other"]
  /\ UNCHANGED <<service_requests, notifications, orders, auth_context, cart, order_items, retry, service_parts, reviews, products, tx, next_id, updated, created>>

\* mechanicService.toggleAvailability
toggleAvailability ==
  \E auth \in Auths, mechanicId \in DOMAIN mechanics, isAvailable \in BOOLEAN :
    /\ mechanics_select(auth, mechanicId)
    /\ mechanics_own(auth, mechanics[mechanicId])
    /\ mechanics' = [mechanics EXCEPT ![mechanicId].is_available = isAvailable]
    /\ UNCHANGED users
    /\ RegistryOp

\* mechanicService.updateMechanic: the mechanic's own settings, and the
\* approval workflow.
updateMechanic ==
  \E auth \in Auths, mechanicId \in DOMAIN mechanics,
     updates \in {[service_radius_km |-> r] : r \in Radii}
                 \cup {[is_approved |-> b] : b \in BOOLEAN} :
    /\ mechanics_select(auth, mechanicId)
    /\ mechanics_own(auth, mechanics[mechanicId])
    /\ mechanics' =
         [mechanics EXCEPT
            ![mechanicId].service_radius_km =
               IF "service_radius_km" \in DOMAIN updates THEN updates.service_radius_km ELSE @,
            ![mechanicId].is_approved =
               IF "is_approved" \in DOMAIN updates THEN updates.is_approved ELSE @]
    /\ UNCHANGED users
    /\ RegistryOp

\* mechanicService.createMechanic: user_id is UNIQUE, the row starts
\* unapproved and available.
createMechanic ==
  \E auth \in Auths, m \in MechanicIds \ DOMAIN mechanics,
     mechanicData \in {<<>>, [service_radius_km |-> 7000]} :
    LET row == MechanicRow(m, TRUE, FALSE,
                           IF "service_radius_km" \in DOMAIN mechanicData
                           THEN mechanicData.service_radius_km ELSE DefaultRadiusKm)
    IN /\ mechanics_own(auth, row)
       /\ mechanics' = mechanics @@ (m :> row)
       /\ UNCHANGED users
       /\ RegistryOp

\* authService.updateProfile by a mechanic's account (Partial<User>).
updateProfile ==
  \E auth \in Auths, userId \in MechanicUserIds,
     updates \in {[latitude |-> la] : la \in Lats \cup {NULL}}
                 \cup {[longitude |-> NULL]}
                 \cup {[is_active |-> b] : b \in BOOLEAN} :
    /\ users_update(auth, userId)
    /\ users' =
         [users EXCEPT
            ![userId].latitude = IF "latitude" \in DOMAIN updates THEN updates.latitude ELSE @,
            ![userId].longitude = IF "longitude" \in DOMAIN updates THEN updates.longitude ELSE @,
            ![userId].is_active = IF "is_active" \in DOMAIN updates THEN updates.is_active ELSE @]
    /\ UNCHANGED mechanics
    /\ RegistryOp

\* ------------------------------------------------------ specification Spec
\* The registry at the start: the accounts of the mechanics are active and
\* alternate between two positions; either no mechanics row exists yet or
\* each has one, approved, all available or all unavailable, with a radius
\* that covers some lattice points and not others.
InitPosition(m) == IF m % 2 = 1 THEN 0 ELSE 60

Init ==
  /\ users = [u \in UserIds |->
                IF u \in CustomerIds THEN UserRow(u, TRUE, NULL, NULL)
                ELSE UserRow(u, TRUE, InitPosition(u - 10), InitPosition(u - 10))]
  /\ \E D \in {{}, MechanicIds}, available \in BOOLEAN :
       mechanics = [m \in D |-> MechanicRow(m, available, TRUE, 7000)]
  /\ service_requests = <<>>
  /\ notifications = <<>>
  /\ orders = <<>>
  /\ auth_context = <<>>
  /\ cart = <<>>
  /\ order_items = {}
  /\ retry = <<>>
  /\ service_parts = <<>>
  /\ reviews = <<>>
  /\ products = <<>>
  /\ tx = [s \in Sessions |-> NoTx]
  /\ next_id = 0
  /\ ops = 0
  /\ updated = 0
  /\ created = <<>>
  /\ last = [op |-> "other"]

Next ==
  \/ \E s \in Sessions : createServiceRequest(s)
  \/ \E s \in Sessions : InsertServiceRequest(s)
  \/ \E s \in Sessions : BeforeInsertTrigger(s)
  \/ \E s \in Sessions : InsertRowAndCommit(s)
  \/ updateServiceRequest
  \/ completeService
  \/ toggleAvailability
  \/ updateMechanic
  \/ createMechanic
  \/ updateProfile

Spec == Init /\ [][Next]_vars

\* ------------------------------------------------- specification SpecSignUp
\* JavaScript's v || null: undefined, null and 0 are falsy and give null, any
\* other number gives itself.  NULL stands for undefined and for null.
or_null(v) == IF v = NULL \/ v = 0 THEN NULL ELSE v

\* INSERT INTO users: row-level security is enabled on users and the
\* migrations create SELECT and UPDATE policies only.
users_insert(auth) == bypass_rls(auth)

\* authService.signUp for a mechanic's account: the record it builds from the
\* data, the INSERT, the error thrown when the INSERT is rejected.
signUp ==
  \E id \in MechanicUserIds \ DOMAIN users, auth \in Auths,
     latitude \in Lats \cup {NULL}, longitude \in Lons \cup {NULL} :
    LET userRecord == UserRow(id, TRUE, or_null(latitude), or_null(longitude))
        userError == ~users_insert(auth)
    IN /\ auth.uid \in {NULL, id}
       /\ users' = IF userError THEN users ELSE users @@ (id :> userRecord)
       /\ last' = [op |-> "signUp", id |-> id,
                   data |-> [latitude |-> latitude, longitude |-> longitude],
                   returned |-> throw_or_return(userError, userRecord)]
       /\ UNCHANGED <<mechanics, service_requests, notifications, tx, next_id,
                      ops, updated, created, orders, auth_context, cart, order_items, retry, service_parts, reviews, products>>

\* Before any mechanic has signed up: the customers' accounts, no mechanics.
InitSignUp ==
  /\ users = [u \in CustomerIds |-> UserRow(u, TRUE, NULL, NULL)]
  /\ mechanics = <<>>
  /\ service_requests = <<>>
  /\ notifications = <<>>
  /\ orders = <<>>
  /\ auth_context = <<>>
  /\ cart = <<>>
  /\ order_items = {}
  /\ retry = <<>>
  /\ service_parts = <<>>
  /\ reviews = <<>>
  /\ products = <<>>
  /\ tx = [s \in Sessions |-> NoTx]
  /\ next_id = 0
  /\ ops = 0
  /\ updated = 0
  /\ created = <<>>
  /\ last = [op |-> "none"]

NextSignUp == signUp

SpecSignUp == InitSignUp /\ [][NextSignUp]_vars

\* ------------------------------------------------- specification SpecOrders
\* CURRENT_DATE takes the values 1..NumDates; floor(random() * 99999) takes
\* the values 0..NumSequences - 1 here.
Dates == 1..NumDates
SequenceParts == 0..(NumSequences - 1)

\* A text column without a value.
NULL_TEXT == [null |-> TRUE]

\* 'ORD-' || date_part || '-' || sequence_part, kept as its three parts.
OrderNumber(date_part, sequence_part) ==
  [prefix |-> "ORD", date_part |-> date_part, sequence_part |-> sequence_part]

\* "Customers can view own orders" (USING)
orders_select(auth, row) == bypass_rls(auth) \/ row.customer_id = auth.uid

\* "Customers can create orders" (WITH CHECK)
orders_insert(auth, row) == bypass_rls(auth) \/ row.customer_id = auth.uid

\* generate_order_number: the numbers the loop can return.  It draws a
\* sequence part until no order the session can see has the number; the
\* function runs with the rights of the session, so EXISTS looks at the
\* committed rows the SELECT policy lets through.  When every number of the
\* day is taken by a visible order the loop does not end.
generate_order_number(auth, date_part) ==
  {OrderNumber(date_part, q) : q \in
     {q \in SequenceParts :
        LET new_number == OrderNumber(date_part, q)
            exists_check == \E id \in DOMAIN orders :
                               /\ orders_select(auth, orders[id])
                               /\ orders[id].order_number = new_number
        IN ~exists_check}}

\* set_order_number: the rows the trigger can hand on.
set_order_number(auth, date_part, new) ==
  IF new.order_number = NULL_TEXT
  THEN {[new EXCEPT !.order_number = n] : n \in generate_order_number(auth, date_part)}
  ELSE {new}

\* The constraints of orders without UNIQUE (order_number).
orders_constraints_mut_no_unique(new) ==
  new.order_number # NULL_TEXT

\* order_number text UNIQUE NOT NULL, against the committed rows.  An INSERT
\* that meets the uncommitted row of another transaction with the same number
\* waits for that transaction to end, which gives the same outcomes as
\* checking when the other has committed or rolled back.
orders_constraints(new) ==
  /\ new.order_number # NULL_TEXT
  /\ \A id \in DOMAIN orders : orders[id].order_number # new.order_number

OrderRow(id, customer_id, order_number) ==
  [id |-> id, customer_id |-> customer_id, order_number |-> order_number]

\* The INSERT statement starts.  CURRENT_DATE is the date the transaction
\* started; dates do not go back.
StartInsertOrder(s, auth, new) ==
  /\ tx[s].pc = "idle"
  /\ next_id < MaxOrders
  /\ next_id' = next_id + 1
  /\ \E current_date \in Dates :
       /\ \A o \in Sessions : tx[o].pc # "idle" => tx[o].current_date <= current_date
       /\ \A id \in DOMAIN created : created[id].current_date <= current_date
       /\ tx' = [tx EXCEPT ![s] = [pc |-> "order_before_insert", auth |-> auth,
                                   submitted |-> new, new |-> new,
                                   current_date |-> current_date]]
  /\ UNCHANGED <<users, mechanics, service_requests, notifications, orders, auth_context, cart, order_items, retry, service_parts, reviews, products, ops,
                 updated, created, last>>

\* orderService.createOrder: the client's data carries no order_number.  The
\* INSERT into order_items that follows does not touch orders.
createOrder(s) ==
  \E uid \in CustomerIds, customer_id \in CustomerIds :
    StartInsertOrder(s, [role |-> "authenticated", uid |-> uid],
                     OrderRow(next_id + 1, customer_id, NULL_TEXT))

\* Any other INSERT INTO orders, by a session that bypasses row-level
\* security: order_number may be given, in the generated form or not.
GivenOrderNumbers ==
  {OrderNumber(1, 0), [prefix |-> "INV", date_part |-> 0, sequence_part |-> 7]}

InsertOrder(s) ==
  \E customer_id \in CustomerIds, order_number \in GivenOrderNumbers \cup {NULL_TEXT} :
    StartInsertOrder(s, [role |-> "service_role", uid |-> NULL],
                     OrderRow(next_id + 1, customer_id, order_number))

\* The statement ends: the history keeps what it did.
EndInsertOrder(s, outcome) ==
  /\ tx' = [tx EXCEPT ![s] = NoTx]
  /\ created' = created @@ (tx[s].new.id :>
                   [outcome |-> outcome, auth |-> tx[s].auth,
                    submitted |-> tx[s].submitted, row |-> tx[s].new,
                    current_date |-> tx[s].current_date,
                    returned |-> throw_or_return(outcome = "aborted",
                                   IF outcome = "aborted" THEN NULL ELSE tx[s].new)])
  /\ last' = [op |-> "insert_order", id |-> tx[s].new.id]

\* generate_order_number_trigger, BEFORE INSERT ON orders FOR EACH ROW.
BeforeInsertOrder(s) ==
  /\ tx[s].pc = "order_before_insert"
  /\ \E new \in set_order_number(tx[s].auth, tx[s].current_date, tx[s].new) :
       tx' = [tx EXCEPT ![s].pc = "order_insert_row", ![s].new = new]
  /\ UNCHANGED <<users, mechanics, service_requests, notifications, orders, auth_context, cart, order_items, retry, service_parts, reviews, products, next_id,
                 ops, updated, created, last>>

\* The row is checked against the constraints and the INSERT policy, stored,
\* and the transaction commits; a violation rolls the statement back.
InsertOrderAndCommit(s) ==
  /\ tx[s].pc = "order_insert_row"
  /\ IF orders_constraints(tx[s].new) /\ orders_insert(tx[s].auth, tx[s].new)
     THEN /\ orders' = orders @@ (tx[s].new.id :> tx[s].new)
          /\ EndInsertOrder(s, "committed")
     ELSE /\ orders' = orders
          /\ EndInsertOrder(s, "aborted")
  /\ UNCHANGED <<users, mechanics, service_requests, notifications, next_id, ops, updated, products, reviews, service_parts, retry, order_items, cart, auth_context>>

InitOrders ==
  /\ users = [u \in CustomerIds |-> UserRow(u, TRUE, NULL, NULL)]
  /\ mechanics = <<>>
  /\ service_requests = <<>>
  /\ notifications = <<>>
  /\ orders = <<>>
  /\ auth_context = <<>>
  /\ cart = <<>>
  /\ order_items = {}
  /\ retry = <<>>
  /\ service_parts = <<>>
  /\ reviews = <<>>
  /\ products = <<>>
  /\ tx = [s \in Sessions |-> NoTx]
  /\ next_id = 0
  /\ ops = 0
  /\ updated = 0
  /\ created = <<>>
  /\ last = [op |-> "none"]

NextOrders ==
  \/ \E s \in Sessions : createOrder(s)
  \/ \E s \in Sessions : InsertOrder(s)
  \/ \E s \in Sessions : BeforeInsertOrder(s)
  \/ \E s \in Sessions : InsertOrderAndCommit(s)

SpecOrders == InitOrders /\ [][NextOrders]_vars

\* Requests created side by side: every mechanic is available and approved,
\* up to MaxNear pending requests without a mechanic are created near them by
\* customers' clients and by privileged sessions, the transactions of the
\* sessions interleave, and nothing else runs.
InitCapacity ==
  /\ Init
  /\ DOMAIN mechanics = MechanicIds
  /\ \A m \in MechanicIds : mechanics[m].is_available

CreateNearby(s) ==
  /\ next_id < MaxNear
  /\ \E customer_id \in CustomerIds, at \in RequestLocations :
     \E auth \in {[role |-> "service_role", uid |-> NULL],
                  [role |-> "authenticated", uid |-> customer_id]} :
       StartInsert(s, auth, auth.role = "authenticated",
                   ServiceRequestRow(next_id + 1, customer_id, NULL, "pending", at[1], at[2]))

NextCapacity ==
  \/ \E s \in Sessions : CreateNearby(s)
  \/ \E s \in Sessions : BeforeInsertTrigger(s)
  \/ \E s \in Sessions : InsertRowAndCommit(s)

SpecCapacity == InitCapacity /\ [][NextCapacity]_vars

\* ------------------------------------------------ specification SpecReviews
ProductIds == 1..NumProducts

\* rating integer NOT NULL CHECK (rating >= 1 AND rating <= 5): some of them.
ReviewRatings == {1, 2, 5}

\* A review of a product; product_id NULL is a review of a mechanic.
ReviewRow(id, user_id, product_id, rating) ==
  [id |-> id, user_id |-> user_id, product_id |-> product_id, rating |-> rating]

ProductRow(rating, review_count) == [rating |-> rating, review_count |-> review_count]

\* "Users can create reviews for own orders/services" (WITH CHECK)
reviews_insert(auth, row) == bypass_rls(auth) \/ row.user_id = auth.uid

\* "Users can update own reviews" (USING, WITH CHECK)
reviews_update(auth, row) == bypass_rls(auth) \/ row.user_id = auth.uid

\* reviews has no DELETE policy.
reviews_delete(auth, row) == bypass_rls(auth)

\* "Vendors can update own products" (USING): the accounts of the model own
\* no vendor.
products_update(auth, product_id) == bypass_rls(auth)

RECURSIVE SumRatings(_, _)
SumRatings(R, ids) ==
  IF ids = {} THEN 0
  ELSE LET id == CHOOSE i \in ids : TRUE
       IN R[id].rating + SumRatings(R, ids \ {id})

\* COALESCE(AVG(rating), 0) as products.rating numeric(3, 2) stores it:
\* hundredths, rounded half up.
avg_rating(R, target_product_id) ==
  LET ids == {id \in DOMAIN R : R[id].product_id = target_product_id}
      n == Cardinality(ids)
  IN IF n = 0 THEN 0 ELSE (200 * SumRatings(R, ids) + n) \div (2 * n)

count_reviews(R, target_product_id) ==
  Cardinality({id \in DOMAIN R : R[id].product_id = target_product_id})

\* update_product_rating, AFTER INSERT OR UPDATE OR DELETE ON reviews FOR EACH
\* ROW: the products table it leaves.  R is reviews with the statement's change
\* applied.  The function runs with the rights of the session: its UPDATE of
\* products changes the rows the UPDATE policy lets through and raises nothing
\* for the others.
update_product_rating(auth, tg_op, old, new, R) ==
  LET target_product_id == IF tg_op = "DELETE" THEN old.product_id ELSE new.product_id
  IN IF target_product_id # NULL /\ products_update(auth, target_product_id)
     THEN [products EXCEPT ![target_product_id] =
             ProductRow(avg_rating(R, target_product_id),
                        count_reviews(R, target_product_id))]
     ELSE products

ReviewStatement ==
  UNCHANGED <<users, mechanics, service_requests, notifications, orders, auth_context, cart, order_items, retry, service_parts, tx, ops, created>>

\* INSERT INTO reviews
insertReview ==
  \E auth \in Auths, user_id \in CustomerIds,
     product_id \in ProductIds \cup {NULL}, rating \in ReviewRatings :
    LET new == ReviewRow(next_id + 1, user_id, product_id, rating)
        R == reviews @@ (new.id :> new)
    IN /\ next_id < MaxReviews
       /\ auth.uid \in CustomerIds \cup {NULL}
       /\ next_id' = next_id + 1
       /\ IF reviews_insert(auth, new)
          THEN /\ reviews' = R
               /\ products' = update_product_rating(auth, "INSERT", new, new, R)
               /\ last' = [op |-> "insert_review", id |-> new.id, rows |-> 1]
          ELSE /\ UNCHANGED <<reviews, products>>
               /\ last' = [op |-> "insert_review", id |-> new.id, rows |-> 0]
       /\ UNCHANGED updated
       /\ ReviewStatement

\* UPDATE reviews SET rating = ... or SET product_id = ... WHERE id = ...
updateReview ==
  \E auth \in Auths, id \in DOMAIN reviews,
     updates \in {[rating |-> r] : r \in ReviewRatings}
                 \cup {[product_id |-> p] : p \in ProductIds} :
    LET old == reviews[id]
        new == [old EXCEPT
                  !.rating = IF "rating" \in DOMAIN updates THEN updates.rating ELSE @,
                  !.product_id = IF "product_id" \in DOMAIN updates
                                 THEN updates.product_id ELSE @]
        R == [reviews EXCEPT ![id] = new]
    IN /\ updated < MaxReviewChanges
       /\ auth.uid \in CustomerIds \cup {NULL}
       /\ old.product_id # NULL
       /\ updated' = updated + 1
       /\ IF reviews_update(auth, old)
          THEN /\ reviews' = R
               /\ products' = update_product_rating(auth, "UPDATE", old, new, R)
               /\ last' = [op |-> "update_review", id |-> id, rows |-> 1]
          ELSE /\ UNCHANGED <<reviews, products>>
               /\ last' = [op |-> "update_review", id |-> id, rows |-> 0]
       /\ UNCHANGED next_id
       /\ ReviewStatement

\* DELETE FROM reviews WHERE id = ...
deleteReview ==
  \E auth \in Auths, id \in DOMAIN reviews :
    LET old == reviews[id]
        R == [i \in DOMAIN reviews \ {id} |-> reviews[i]]
    IN /\ updated < MaxReviewChanges
       /\ auth.uid \in CustomerIds \cup {NULL}
       /\ updated' = updated + 1
       /\ IF reviews_delete(auth, old)
          THEN /\ reviews' = R
               /\ products' = update_product_rating(auth, "DELETE", old, old, R)
               /\ last' = [op |-> "delete_review", id |-> id, rows |-> 1]
          ELSE /\ UNCHANGED <<reviews, products>>
               /\ last' = [op |-> "delete_review", id |-> id, rows |-> 0]
       /\ UNCHANGED next_id
       /\ ReviewStatement

InitReviews ==
  /\ users = [u \in CustomerIds |-> UserRow(u, TRUE, NULL, NULL)]
  /\ mechanics = <<>>
  /\ service_requests = <<>>
  /\ notifications = <<>>
  /\ orders = <<>>
  /\ auth_context = <<>>
  /\ cart = <<>>
  /\ order_items = {}
  /\ retry = <<>>
  /\ service_parts = <<>>
  /\ reviews = <<>>
  /\ products = [p \in ProductIds |-> ProductRow(0, 0)]
  /\ tx = [s \in Sessions |-> NoTx]
  /\ next_id = 0
  /\ ops = 0
  /\ updated = 0
  /\ created = <<>>
  /\ last = [op |-> "none"]

NextReviews ==
  \/ insertReview
  \/ updateReview
  \/ deleteReview

SpecReviews == InitReviews /\ [][NextReviews]_vars

\* ---------------------------------------------- specification SpecIsolation
\* serviceRequestService.getServiceRequest: the row when the SELECT policy
\* shows it to the session, else 'Service request not found' is thrown.
getServiceRequest ==
  \E auth \in Auths, id \in DOMAIN service_requests :
    /\ last.op # "getServiceRequest"
    /\ last' = [op |-> "getServiceRequest", auth |-> auth, id |-> id,
                returned |-> throw_or_return(
                               ~service_requests_own_or_assigned(auth, service_requests[id]),
                               service_requests[id])]
    /\ UNCHANGED <<users, mechanics, service_requests, notifications, orders, auth_context, cart, order_items, retry, service_parts, reviews,
                   products, tx, next_id, ops, updated, created>>

\* Every mechanics table of any availability and approval, and one stored
\* request of any customer account, mechanic and status: what creations,
\* assignments and updates can leave.
InitIsolation ==
  /\ users = [u \in UserIds |-> UserRow(u, TRUE, NULL, NULL)]
  /\ mechanics \in {M \in AllMechanics : \A m \in DOMAIN M : M[m].service_radius_km = DefaultRadiusKm}
  /\ \E customer_id \in UserIds, mechanic_id \in DOMAIN mechanics \cup {NULL},
        status \in Statuses :
       service_requests = (1 :> ServiceRequestRow(1, customer_id, mechanic_id, status, 0, 0))
  /\ notifications = <<>>
  /\ orders = <<>>
  /\ auth_context = <<>>
  /\ cart = <<>>
  /\ order_items = {}
  /\ retry = <<>>
  /\ service_parts = <<>>
  /\ reviews = <<>>
  /\ products = <<>>
  /\ tx = [s \in Sessions |-> NoTx]
  /\ next_id = 1
  /\ ops = 0
  /\ updated = 0
  /\ created = <<>>
  /\ last = [op |-> "none"]

NextIsolation ==
  \/ getServiceRequest
  \/ updateServiceRequest
  \/ completeService

SpecIsolation == InitIsolation /\ [][NextIsolation]_vars

\* -------------------------------------------------- specification SpecParts
ServicePartRow(id, service_request_id, product_id) ==
  [id |-> id, service_request_id |-> service_request_id, product_id |-> product_id]

\* "Mechanics can insert parts for assigned requests" (WITH CHECK)
service_parts_insert(auth, row) ==
  \/ bypass_rls(auth)
  \/ \E id \in DOMAIN service_requests :
       /\ id = row.service_request_id
       /\ service_requests_own_or_assigned(auth, service_requests[id])
       /\ service_requests[id].mechanic_id \in own_mechanics(auth)

\* The trigger's UPDATE without AND status = 'in_progress'.
notify_parts_recommendation_mut_any_status(auth, new) ==
  LET request == service_requests[new.service_request_id]
      seen == service_requests_own_or_assigned(auth, request)
  IN [service_requests |->
        IF seen
        THEN [service_requests EXCEPT ![request.id].status = "parts_recommended"]
        ELSE service_requests,
      inserts |-> <<Notification(IF seen THEN request.customer_id ELSE NULL,
                                 "parts_recommended", "/customer/services/", request.id)>>]

\* notify_parts_recommendation, AFTER INSERT ON service_parts FOR EACH ROW:
\* the service_requests table it leaves and the notification it inserts.  The
\* function runs with the rights of the session: its SELECT and its UPDATE
\* reach the request only when the policies on service_requests show it.
notify_parts_recommendation(auth, new) ==
  LET request == service_requests[new.service_request_id]
      seen == service_requests_own_or_assigned(auth, request)
  IN [service_requests |->
        IF seen /\ request.status = "in_progress"
        THEN [service_requests EXCEPT ![request.id].status = "parts_recommended"]
        ELSE service_requests,
      inserts |-> <<Notification(IF seen THEN request.customer_id ELSE NULL,
                                 "parts_recommended", "/customer/services/", request.id)>>]

\* serviceRequestService.addRecommendedPart: the INSERT into service_parts
\* with its trigger, one statement and one transaction.  A rejected row, a
\* rejected notification or a notification without user_id (NOT NULL) rolls
\* everything back and the service throws.
addRecommendedPart ==
  \E auth \in Auths, serviceRequestId \in DOMAIN service_requests, productId \in ProductIds :
    LET new == ServicePartRow(next_id + 1, serviceRequestId, productId)
        r == notify_parts_recommendation(auth, new)
        error == \/ ~service_parts_insert(auth, new)
                 \/ ~notifications_insert(auth)
                 \/ r.inserts[1].user_id = NULL
    IN /\ next_id < MaxParts + 1
       /\ next_id' = next_id + 1
       /\ IF error
          THEN UNCHANGED <<service_parts, service_requests, notifications>>
          ELSE /\ service_parts' = Append(service_parts, new)
               /\ service_requests' = r.service_requests
               /\ notifications' = notifications \o r.inserts
       /\ last' = [op |-> "addRecommendedPart", id |-> serviceRequestId,
                   status |-> service_requests[serviceRequestId].status,
                   returned |-> throw_or_return(error, new)]
       /\ UNCHANGED <<users, mechanics, orders, auth_context, cart, order_items, retry, reviews, products, tx, ops, updated, created>>

\* One stored request of any status, of any customer, with or without a
\* mechanic; the mechanics are approved.
InitParts ==
  /\ users = [u \in UserIds |-> UserRow(u, TRUE, NULL, NULL)]
  /\ mechanics = [m \in MechanicIds |-> MechanicRow(m, TRUE, TRUE, DefaultRadiusKm)]
  /\ \E customer_id \in CustomerIds, mechanic_id \in MechanicIds \cup {NULL},
        status \in Statuses :
       service_requests = (1 :> ServiceRequestRow(1, customer_id, mechanic_id, status, 0, 0))
  /\ notifications = <<>>
  /\ orders = <<>>
  /\ auth_context = <<>>
  /\ cart = <<>>
  /\ order_items = {}
  /\ retry = <<>>
  /\ service_parts = <<>>
  /\ reviews = <<>>
  /\ products = [p \in ProductIds |-> ProductRow(0, 0)]
  /\ tx = [s \in Sessions |-> NoTx]
  /\ next_id = 1
  /\ ops = 0
  /\ updated = 0
  /\ created = <<>>
  /\ last = [op |-> "none"]

NextParts == addRecommendedPart

SpecParts == InitParts /\ [][NextParts]_vars

\* -------------------------------------------------- specification SpecRetry
MAX_RETRIES == 2

\* Error messages, each taken as the set of the substrings it contains that
\* isRetryableError looks for; error?.message || '' of an error without a
\* message is the empty string.
ErrorMessages ==
  {{"PGRST301"}, {"ETIMEDOUT"}, {"ECONNRESET"}, {"network"}, {"timeout"},
   {"network", "timeout"}, {}}

isRetryableError(error) ==
  LET retryableCodes == {"PGRST301", "ETIMEDOUT", "ECONNRESET"}
      errorMessage == error
  IN \/ \E code \in retryableCodes : code \in errorMessage
     \/ "network" \in errorMessage
     \/ "timeout" \in errorMessage

\* The condition of the catch block with retries >= 0.
catch_retries_mut_ge(retries, error) == retries >= 0 /\ isRetryableError(error)

\* if (retries > 0 && isRetryableError(error))
catch_retries(retries, error) == retries > 0 /\ isRetryableError(error)

\* What an invocation of the wrapped operation can do.
Outcomes ==
  {[ok |-> TRUE, value |-> v, error |-> {}] : v \in {1, 2}}
  \cup {[ok |-> FALSE, value |-> NULL, error |-> e] : e \in ErrorMessages}

RetryFrame ==
  UNCHANGED <<users, mechanics, service_requests, notifications, orders, auth_context, cart, order_items, service_parts,
              reviews, products, tx, next_id, ops, updated, created, last>>

\* return await operation(), and the catch block: the result is returned, or
\* the delay before the recursive call starts, or the error is thrown.
InvokeOperation ==
  /\ retry.pc = "try"
  /\ Len(retry.attempts) < MaxAttempts
  /\ \E outcome \in Outcomes :
       retry' = [retry EXCEPT
                   !.attempts = Append(@, outcome),
                   !.pc = IF outcome.ok THEN "returned"
                          ELSE IF catch_retries(retry.retries, outcome.error) THEN "delay"
                          ELSE "thrown",
                   !.result = outcome]
  /\ RetryFrame

\* await new Promise(resolve => setTimeout(resolve, RETRY_DELAY)), then
\* retryOperation(operation, retries - 1).
RetryAfterDelay ==
  /\ retry.pc = "delay"
  /\ retry' = [retry EXCEPT !.pc = "try", !.retries = @ - 1]
  /\ RetryFrame

\* retryOperation(operation) is called, retries = MAX_RETRIES.
InitRetry ==
  /\ users = <<>>
  /\ mechanics = <<>>
  /\ service_requests = <<>>
  /\ notifications = <<>>
  /\ orders = <<>>
  /\ auth_context = <<>>
  /\ cart = <<>>
  /\ order_items = {}
  /\ service_parts = <<>>
  /\ reviews = <<>>
  /\ products = <<>>
  /\ retry = [pc |-> "try", retries |-> MAX_RETRIES, attempts |-> <<>>,
              result |-> [ok |-> FALSE, value |-> NULL, error |-> {}]]
  /\ tx = [s \in Sessions |-> NoTx]
  /\ next_id = 0
  /\ ops = 0
  /\ updated = 0
  /\ created = <<>>
  /\ last = [op |-> "none"]

NextRetry ==
  \/ InvokeOperation
  \/ RetryAfterDelay

SpecRetry == InitRetry /\ [][NextRetry]_vars

\* -------------------------------------------- specification SpecCreateOrder
\* Products an item can name: the stored ones and one that is not stored
\* (order_items.product_id REFERENCES products).
ItemProducts == ProductIds \cup {NumProducts + 1}

OrderItemRow(order_id, product_id) == [order_id |-> order_id, product_id |-> product_id]

\* "Customers can insert own order items" (WITH CHECK)
order_items_insert(auth, row) ==
  \/ bypass_rls(auth)
  \/ \E id \in DOMAIN orders :
       /\ id = row.order_id
       /\ orders_select(auth, orders[id])
       /\ orders[id].customer_id = auth.uid

\* The foreign keys of order_items.
order_items_constraints(row) ==
  /\ row.order_id \in DOMAIN orders
  /\ row.product_id \in DOMAIN products

\* The orders table after `if (itemsError) throw itemsError`: the statement
\* that inserted the order has committed, nothing takes it back.
orders_after_items_error(order) == orders

CreateOrderFrame ==
  UNCHANGED <<users, mechanics, service_requests, notifications, service_parts, reviews,
              products, retry, ops, updated, cart, auth_context>>

\* orderService.createOrder, first statement: INSERT INTO orders with its
\* BEFORE INSERT trigger, committed on its own; `if (orderError) throw
\* orderError`.
createOrderInsertOrder(s) ==
  \E uid \in CustomerIds, customer_id \in CustomerIds, date_part \in Dates,
     items \in (SUBSET ItemProducts) \ {{}} :
    LET auth == [role |-> "authenticated", uid |-> uid]
        orderInfo == OrderRow(next_id + 1, customer_id, NULL_TEXT)
    IN /\ tx[s].pc = "idle"
       /\ next_id < MaxCalls
       /\ next_id' = next_id + 1
       /\ \E new \in set_order_number(auth, date_part, orderInfo) :
            LET orderError == ~(orders_constraints(new) /\ orders_insert(auth, new))
            IN IF orderError
               THEN /\ UNCHANGED <<orders, tx>>
                    /\ created' = created @@ (new.id :>
                         [auth |-> auth, items |-> items, ordered |-> FALSE,
                          returned |-> throw_or_return(TRUE, new)])
               ELSE /\ orders' = orders @@ (new.id :> new)
                    /\ tx' = [tx EXCEPT ![s] = [pc |-> "order_items", auth |-> auth,
                                                order |-> new, items |-> items]]
                    /\ UNCHANGED created
       /\ last' = [op |-> "createOrder", id |-> next_id + 1]
       /\ UNCHANGED order_items
       /\ CreateOrderFrame

\* orderService.createOrder, second statement: INSERT INTO order_items of all
\* the items, all stored or none; `if (itemsError) throw itemsError; return
\* order`.
createOrderInsertItems(s) ==
  /\ tx[s].pc = "order_items"
  /\ LET order == tx[s].order
         orderItems == {OrderItemRow(order.id, p) : p \in tx[s].items}
         itemsError == \E row \in orderItems :
                         ~(order_items_constraints(row) /\ order_items_insert(tx[s].auth, row))
     IN /\ IF itemsError
           THEN /\ orders' = orders_after_items_error(order)
                /\ UNCHANGED order_items
           ELSE /\ order_items' = order_items \cup orderItems
                /\ UNCHANGED orders
        /\ created' = created @@ (order.id :>
             [auth |-> tx[s].auth, items |-> tx[s].items, ordered |-> TRUE,
              returned |-> throw_or_return(itemsError, order)])
        /\ last' = [op |-> "createOrder", id |-> order.id]
  /\ tx' = [tx EXCEPT ![s] = NoTx]
  /\ UNCHANGED next_id
  /\ CreateOrderFrame

InitCreateOrder ==
  /\ users = [u \in CustomerIds |-> UserRow(u, TRUE, NULL, NULL)]
  /\ mechanics = <<>>
  /\ service_requests = <<>>
  /\ notifications = <<>>
  /\ orders = <<>>
  /\ auth_context = <<>>
  /\ cart = <<>>
  /\ order_items = {}
  /\ service_parts = <<>>
  /\ reviews = <<>>
  /\ products = [p \in ProductIds |-> ProductRow(0, 0)]
  /\ retry = <<>>
  /\ tx = [s \in Sessions |-> NoTx]
  /\ next_id = 0
  /\ ops = 0
  /\ updated = 0
  /\ created = <<>>
  /\ last = [op |-> "none"]

NextCreateOrder ==
  \/ \E s \in Sessions : createOrderInsertOrder(s)
  \/ \E s \in Sessions : createOrderInsertItems(s)

SpecCreateOrder == InitCreateOrder /\ [][NextCreateOrder]_vars

\* --------------------------------------------------- specification SpecCart
CartRow(id, user_id, product_id, quantity) ==
  [id |-> id, user_id |-> user_id, product_id |-> product_id, quantity |-> quantity]

\* "Users can view own cart", "Users can manage own cart", "Users can update
\* own cart": the same expression.
cart_own(auth, row) == bypass_rls(auth) \/ row.user_id = auth.uid

\* UNIQUE(user_id, product_id)
cart_constraints(new) ==
  \A id \in DOMAIN cart :
    ~(cart[id].user_id = new.user_id /\ cart[id].product_id = new.product_id)

Quantities == {1, 2}

CartFrame ==
  UNCHANGED <<users, mechanics, service_requests, notifications, orders, auth_context, order_items,
              service_parts, reviews, products, retry, ops, updated>>

\* cartService.addToCart, first statement: SELECT the row of (userId,
\* productId), maybeSingle.
addToCartSelect(s) ==
  \E userId \in CustomerIds, productId \in ProductIds, quantity \in Quantities :
    LET auth == [role |-> "authenticated", uid |-> userId]
        rows == {id \in DOMAIN cart : /\ cart_own(auth, cart[id])
                                      /\ cart[id].user_id = userId
                                      /\ cart[id].product_id = productId}
    IN /\ tx[s].pc = "idle"
       /\ next_id < MaxCalls
       /\ next_id' = next_id + 1
       /\ tx' = [tx EXCEPT ![s] =
                   [pc |-> "cart_write", call |-> next_id + 1, auth |-> auth,
                    userId |-> userId, productId |-> productId, quantity |-> quantity,
                    existing |-> IF rows = {} THEN <<>>
                                 ELSE <<cart[CHOOSE id \in rows : TRUE]>>]]
       /\ UNCHANGED <<cart, created, last>>
       /\ CartFrame

\* cartService.addToCart, second statement: UPDATE the row read with
\* existing.quantity + quantity, or INSERT a row; `if (error) throw error`.
addToCartWrite(s) ==
  /\ tx[s].pc = "cart_write"
  /\ LET t == tx[s]
         new == IF t.existing # <<>>
                THEN [t.existing[1] EXCEPT !.quantity = t.existing[1].quantity + t.quantity]
                ELSE CartRow(Cardinality(DOMAIN cart) + 1, t.userId, t.productId, t.quantity)
         error == IF t.existing # <<>>
                  THEN ~(new.id \in DOMAIN cart /\ cart_own(t.auth, cart[new.id]))
                  ELSE ~(cart_constraints(new) /\ cart_own(t.auth, new))
     IN /\ cart' = IF error THEN cart
                   ELSE IF t.existing # <<>> THEN [cart EXCEPT ![new.id] = new]
                   ELSE cart @@ (new.id :> new)
        /\ created' = created @@ (t.call :>
             [userId |-> t.userId, productId |-> t.productId, quantity |-> t.quantity,
              returned |-> throw_or_return(error, new)])
        /\ last' = [last EXCEPT !.op = "addToCart"]
  /\ tx' = [tx EXCEPT ![s] = NoTx]
  /\ UNCHANGED next_id
  /\ CartFrame

\* A cart that is empty or holds one row of the first customer for the
\* first product; `last` keeps the quantities the cart had at the start.
InitCart ==
  /\ users = [u \in CustomerIds |-> UserRow(u, TRUE, NULL, NULL)]
  /\ mechanics = <<>>
  /\ service_requests = <<>>
  /\ notifications = <<>>
  /\ orders = <<>>
  /\ auth_context = <<>>
  /\ order_items = {}
  /\ service_parts = <<>>
  /\ reviews = <<>>
  /\ products = [p \in ProductIds |-> ProductRow(0, 0)]
  /\ retry = <<>>
  /\ tx = [s \in Sessions |-> NoTx]
  /\ next_id = 0
  /\ ops = 0
  /\ updated = 0
  /\ created = <<>>
  /\ \E previous \in {0} \cup Quantities :
       /\ cart = IF previous = 0 THEN <<>>
                 ELSE (1 :> CartRow(1, 21, 1, previous))
       /\ last = [op |-> "none", previous |-> previous]

NextCart ==
  \/ \E s \in Sessions : addToCartSelect(s)
  \/ \E s \in Sessions : addToCartWrite(s)

SpecCart == InitCart /\ [][NextCart]_vars

\* ------------------------------------------- specification SpecAuthContext
AuthContextFrame ==
  UNCHANGED <<users, mechanics, service_requests, notifications, orders, order_items,
              service_parts, reviews, products, cart, retry, tx, next_id, ops, updated,
              created, last>>

\* setUser(value)
setUser(value) == [auth_context EXCEPT !.user = value]

\* supabase.auth emits an event with the current session (SIGNED_IN,
\* TOKEN_REFRESHED, ...) and authService.onAuthStateChange's listener starts:
\* with session.user it begins getCurrentUser, without it calls callback(null)
\* at once.
AuthStateChange ==
  /\ Len(auth_context.callbacks) < MaxCallbacks
  /\ auth_context' =
       IF auth_context.session # NULL
       THEN [auth_context EXCEPT !.callbacks =
               Append(@, [pc |-> "getUser", user |-> NULL, token |-> NULL, data |-> NULL])]
       ELSE setUser(NULL)
  /\ AuthContextFrame

\* getCurrentUser in a listener: supabase.auth.getUser() resolves with the
\* user of the session there is now; `if (!user) return null`, and the
\* listener calls callback(null).
CallbackGetUser(c) ==
  /\ auth_context.callbacks[c].pc = "getUser"
  /\ auth_context' =
       IF auth_context.session = NULL
       THEN [setUser(NULL) EXCEPT !.callbacks[c].pc = "done"]
       ELSE [auth_context EXCEPT !.callbacks[c].pc = "select",
                                 !.callbacks[c].user = auth_context.session]
  /\ AuthContextFrame

\* getCurrentUser in a listener: the SELECT from users is sent with the token
\* of the session there is now (none after a sign-out).
CallbackSendSelect(c) ==
  /\ auth_context.callbacks[c].pc = "select"
  /\ auth_context' = [auth_context EXCEPT !.callbacks[c].pc = "selecting",
                                          !.callbacks[c].token = auth_context.session]
  /\ AuthContextFrame

\* The SELECT returns: the account's row when the request carried its token
\* ("Users can view own profile" is TO authenticated), else no row; the listener
\* calls callback(data) and the subscription of AuthProvider calls setUser.
CallbackReceive(c) ==
  /\ auth_context.callbacks[c].pc = "selecting"
  /\ LET data == IF auth_context.callbacks[c].token # NULL
                 THEN auth_context.callbacks[c].user ELSE NULL
     IN auth_context' = [setUser(data) EXCEPT !.callbacks[c].pc = "done",
                                              !.callbacks[c].data = data]
  /\ AuthContextFrame

\* AuthProvider.signOut, up to the await: supabase.auth.signOut() removes the
\* session.
signOutCall ==
  /\ auth_context.signOut = "idle"
  /\ auth_context' = [auth_context EXCEPT !.signOut = "awaiting", !.session = NULL]
  /\ AuthContextFrame

\* The SIGNED_OUT event reaches the listener while signOut is awaited:
\* the session is null, callback(null).
SignedOutEvent ==
  /\ auth_context.signOut = "awaiting"
  /\ auth_context' = [setUser(NULL) EXCEPT !.signOut = "notified"]
  /\ AuthContextFrame

\* AuthProvider.signOut after the await: setUser(null), and the call resolves.
signOutResolve ==
  /\ auth_context.signOut = "notified"
  /\ auth_context' = [setUser(NULL) EXCEPT !.signOut = "resolved"]
  /\ AuthContextFrame

\* A signed-in account: the session is its and the context holds it.
InitAuthContext ==
  /\ users = [u \in CustomerIds |-> UserRow(u, TRUE, NULL, NULL)]
  /\ mechanics = <<>>
  /\ service_requests = <<>>
  /\ notifications = <<>>
  /\ orders = <<>>
  /\ order_items = {}
  /\ service_parts = <<>>
  /\ reviews = <<>>
  /\ products = <<>>
  /\ cart = <<>>
  /\ retry = <<>>
  /\ \E u \in CustomerIds :
       auth_context = [user |-> u, session |-> u, signOut |-> "idle", callbacks |-> <<>>]
  /\ tx = [s \in Sessions |-> NoTx]
  /\ next_id = 0
  /\ ops = 0
  /\ updated = 0
  /\ created = <<>>
  /\ last = [op |-> "none"]

NextAuthContext ==
  \/ AuthStateChange
  \/ \E c \in 1..MaxCallbacks : c <= Len(auth_context.callbacks) /\ CallbackGetUser(c)
  \/ \E c \in 1..MaxCallbacks : c <= Len(auth_context.callbacks) /\ CallbackSendSelect(c)
  \/ \E c \in 1..MaxCallbacks : c <= Len(auth_context.callbacks) /\ CallbackReceive(c)
  \/ signOutCall
  \/ SignedOutEvent
  \/ signOutResolve

SpecAuthContext == InitAuthContext /\ [][NextAuthContext]_vars

\* ---------------------------------------------------------------- properties
\* Eligibility, distance and range of the mechanics row m as the tables U
\* (users) and M (mechanics) hold them, stated over the whole tables.
Eligible(U, M, m) ==
  /\ m \in DOMAIN M
  /\ M[m].is_available
  /\ M[m].is_approved
  /\ U[M[m].user_id].is_active
  /\ U[M[m].user_id].latitude # NULL
  /\ U[M[m].user_id].longitude # NULL

Distance(U, M, m, lat, lon) ==
  calculate_distance(U[M[m].user_id].latitude, U[M[m].user_id].longitude, lat, lon)

InRange(U, M, m, lat, lon) ==
  /\ lat # NULL
  /\ lon # NULL
  /\ Distance(U, M, m, lat, lon) <= M[m].service_radius_km

\* C9: a non-null result of find_nearest_mechanic is a mechanic that is
\* available and approved, whose account is active and has a latitude and a
\* longitude, and whose distance to the request is at most its own
\* service_radius_km (a distance equal to the radius is in range).
C9_ResultEligibleInRange ==
  (last.op = "find_nearest_mechanic" /\ last.result # NULL) =>
    /\ Eligible(users, mechanics, last.result)
    /\ InRange(users, mechanics, last.result, last.lat, last.lon)

\* A call returned a mechanic whose distance equals its radius.
C9_Witness ==
  /\ last.op = "find_nearest_mechanic"
  /\ last.result # NULL
  /\ Distance(users, mechanics, last.result, last.lat, last.lon)
       = mechanics[last.result].service_radius_km

C1_AssignedHasMechanic ==
  \A id \in DOMAIN service_requests :
    service_requests[id].status = "assigned" => service_requests[id].mechanic_id # NULL

\* C2: whenever the trigger sets 'assigned', the mechanic it chose was, in the
\* registry as that trigger run read it, available, approved, with an active
\* account that has a position, and within its own radius of the request;
\* later changes of the registry do not matter.
C2_AssignedMechanicWasEligible ==
  /\ \A s \in Sessions :
       (tx[s].pc = "insert_row" /\ tx[s].found # NULL) =>
         /\ tx[s].new.status = "assigned"
         /\ tx[s].new.mechanic_id = tx[s].found
         /\ Eligible(tx[s].read.users, tx[s].read.mechanics, tx[s].found)
         /\ InRange(tx[s].read.users, tx[s].read.mechanics, tx[s].found,
                    tx[s].new.latitude, tx[s].new.longitude)
  /\ \A id \in DOMAIN created :
       created[id].found # NULL =>
         /\ created[id].row.status = "assigned"
         /\ created[id].row.mechanic_id = created[id].found
         /\ Eligible(created[id].read.users, created[id].read.mechanics, created[id].found)
         /\ InRange(created[id].read.users, created[id].read.mechanics, created[id].found,
                    created[id].row.latitude, created[id].row.longitude)

\* A request was committed as assigned to a mechanic who has since become
\* unavailable.
C2_Witness ==
  \E id \in DOMAIN created :
    /\ created[id].outcome = "committed"
    /\ created[id].found # NULL
    /\ ~mechanics[created[id].found].is_available

\* The notifications that refer to the request id, in the order of insertion.
NotificationsOf(id) == SelectSeq(notifications, LAMBDA n : n.action_url[2] = id)

\* Some mechanic was eligible and in range of the row in the tables U, M.
SomeoneInRange(U, M, row) ==
  \E m \in DOMAIN M :
    Eligible(U, M, m) /\ InRange(U, M, m, row.latitude, row.longitude)

C4_CreationAtomic ==
  /\ \A id \in DOMAIN service_requests :
       created[id].found # NULL =>
         /\ Len(created[id].inserts) = 2
         /\ NotificationsOf(id) = created[id].inserts
  /\ \A i \in 1 .. Len(notifications) :
       notifications[i].action_url[2] \in DOMAIN service_requests
  /\ \A id \in DOMAIN created :
       created[id].outcome = "aborted" =>
         id \notin DOMAIN service_requests /\ NotificationsOf(id) = <<>>
  /\ \A s \in Sessions :
       tx[s].pc # "idle" =>
         tx[s].new.id \notin DOMAIN service_requests /\ NotificationsOf(tx[s].new.id) = <<>>

\* A creation whose trigger had assigned a mechanic and written the
\* notifications failed afterwards.
C4_Witness ==
  \E id \in DOMAIN created :
    /\ created[id].outcome = "aborted"
    /\ created[id].found # NULL
    /\ created[id].cause \in {"notification failed", "row failed"}

\* C5: when the creation of a pending request without mechanic finds a
\* mechanic, what is committed is the status 'assigned', the found mechanic
\* as mechanic_id, and exactly two notifications: 'service_assigned' to the
\* user_id of the mechanic's row and 'mechanic_assigned' to the customer, each
\* with an action_url holding the request's id.
C5_AssignedAndNotified ==
  \A id \in DOMAIN created :
    (/\ created[id].outcome = "committed"
     /\ created[id].submitted.status = "pending"
     /\ created[id].submitted.mechanic_id = NULL
     /\ created[id].found # NULL) =>
      /\ created[id].row.status = "assigned"
      /\ created[id].row.mechanic_id = created[id].found
      /\ created[id].row = [created[id].submitted EXCEPT !.status = "assigned",
                                                        !.mechanic_id = created[id].found]
      /\ Len(NotificationsOf(id)) = 2
      /\ \E n \in {NotificationsOf(id)[1], NotificationsOf(id)[2]} :
           /\ n.type = "service_assigned"
           /\ n.user_id = created[id].read.mechanics[created[id].found].user_id
           /\ n.action_url = <<"/mechanic/services/", id>>
      /\ \E n \in {NotificationsOf(id)[1], NotificationsOf(id)[2]} :
           /\ n.type = "mechanic_assigned"
           /\ n.user_id = created[id].row.customer_id
           /\ n.action_url = <<"/customer/services/", id>>

\* A creation that found a mechanic was committed with its two notifications.
C5_Witness ==
  \E id \in DOMAIN created :
    /\ created[id].outcome = "committed"
    /\ created[id].submitted.mechanic_id = NULL
    /\ created[id].found # NULL
    /\ id \in DOMAIN service_requests
    /\ Len(notifications) = 2

\* C6: when the creation of a pending request without mechanic finds no
\* mechanic, the trigger raises nothing, so the creation fails only where the
\* INSERT itself fails; the row is stored as 'pending' without mechanic_id and
\* no notification is created.
C6_NoMatchStaysPending ==
  /\ \A id \in DOMAIN created :
       (/\ created[id].submitted.status = "pending"
        /\ created[id].submitted.mechanic_id = NULL
        /\ created[id].found = NULL) =>
         /\ created[id].row = created[id].submitted
         /\ created[id].inserts = <<>>
         /\ NotificationsOf(id) = <<>>
         /\ created[id].outcome = "aborted" =>
              created[id].cause \in {"row failed", "constraint", "row rejected"}
  /\ \A s \in Sessions :
       (/\ tx[s].pc = "insert_row"
        /\ tx[s].submitted.status = "pending"
        /\ tx[s].submitted.mechanic_id = NULL
        /\ tx[s].found = NULL) =>
         tx[s].new = tx[s].submitted /\ tx[s].inserts = <<>>

\* A request was committed as 'pending' while the registry had no mechanic.
C6_Witness ==
  \E id \in DOMAIN created :
    /\ created[id].outcome = "committed"
    /\ created[id].client
    /\ created[id].read.mechanics = <<>>
    /\ id \in DOMAIN service_requests
    /\ service_requests[id].status = "pending"
    /\ service_requests[id].mechanic_id = NULL
    /\ notifications = <<>>

\* C7: on a request that is not 'pending' or that has a mechanic_id the
\* trigger function is a no-op: the row stays as given and no notification is
\* created; run again on a row it has assigned, it changes nothing.
C7_NoOpOutsideTriggerPoint ==
  /\ \A id \in DOMAIN created :
       (created[id].submitted.status # "pending" \/ created[id].submitted.mechanic_id # NULL) =>
         /\ created[id].row = created[id].submitted
         /\ created[id].inserts = <<>>
         /\ NotificationsOf(id) = <<>>
  /\ \A id \in DOMAIN created :
       created[id].found # NULL =>
         \A r \in assign_mechanic_to_service(created[id].auth, created[id].row) :
           r.new = created[id].row /\ r.inserts = <<>> /\ ~r.raises
  /\ \A id \in DOMAIN service_requests :
       (service_requests[id].status # "pending" \/ service_requests[id].mechanic_id # NULL) =>
         \A r \in assign_mechanic_to_service(created[id].auth, service_requests[id]) :
           r.new = service_requests[id] /\ r.inserts = <<>> /\ ~r.raises

\* A request submitted outside the trigger point was committed as given
\* although a mechanic was eligible and in range.
C7_Witness ==
  \E id \in DOMAIN created :
    /\ created[id].outcome = "committed"
    /\ created[id].submitted.status # "pending" \/ created[id].submitted.mechanic_id # NULL
    /\ SomeoneInRange(created[id].read.users, created[id].read.mechanics, created[id].row)

\* C8: the assignment runs once per request, at its creation, and never on an
\* update: a stored request changes only by an explicit update, to exactly
\* the columns that update sets, and it never receives a notification after
\* its creation, whatever happens to the registry.
C8_NoAssignmentAfterCreation ==
  [][\A id \in DOMAIN service_requests :
       /\ id \in DOMAIN service_requests'
       /\ service_requests'[id] # service_requests[id] =>
            /\ last'.op \in {"updateServiceRequest", "completeService"}
            /\ last'.id = id
            /\ service_requests'[id] = set_columns(service_requests[id], last'.updates)
       /\ SelectSeq(notifications', LAMBDA n : n.action_url[2] = id) = NotificationsOf(id)]_vars

\* A request left 'pending' for want of a mechanic was updated after a
\* mechanic had become eligible and in range, and is still unassigned.
C8_Witness ==
  \E id \in DOMAIN service_requests :
    /\ created[id].found = NULL
    /\ created[id].submitted.mechanic_id = NULL
    /\ last.op = "updateServiceRequest"
    /\ last.id = id
    /\ service_requests[id].status = "pending"
    /\ service_requests[id].mechanic_id = NULL
    /\ SomeoneInRange(users, mechanics, service_requests[id])
    /\ notifications = <<>>

\* The mechanics that are eligible and in range of (lat, lon) in the current
\* registry.
Survivors(lat, lon) ==
  {m \in DOMAIN mechanics :
     Eligible(users, mechanics, m) /\ InRange(users, mechanics, m, lat, lon)}

C12_MissingLocationFindsNone ==
  (last.op = "find_nearest_mechanic" /\ (last.lat = NULL \/ last.lon = NULL)) =>
    /\ last.result = NULL
    /\ \A auth \in Auths, customer_id \in CustomerIds :
         LET new == ServiceRequestRow(1, customer_id, NULL, "pending", last.lat, last.lon)
         IN assign_mechanic_to_service(auth, new)
              = {[new |-> new, inserts |-> <<>>, found |-> NULL, raises |-> FALSE]}

\* A call without latitude returned NULL while every mechanic was eligible,
\* at a known position and with the widest radius.
C12_Witness ==
  /\ last.op = "find_nearest_mechanic"
  /\ last.lat = NULL
  /\ last.lon # NULL
  /\ last.result = NULL
  /\ DOMAIN mechanics = MechanicIds
  /\ \A m \in MechanicIds :
       Eligible(users, mechanics, m) /\ mechanics[m].service_radius_km = 7000

\* C13: a failure to store the request row or one of the notifications makes
\* createServiceRequest throw; a call that returns a request returns the
\* committed row, and returns it as 'pending' only when the trigger found no
\* mechanic and wrote nothing.
C13_FailureIsThrown ==
  \A id \in DOMAIN created :
    created[id].client =>
      /\ created[id].outcome = "aborted" =>
           created[id].returned.throws /\ id \notin DOMAIN service_requests
      /\ ~created[id].returned.throws =>
           /\ created[id].outcome = "committed"
           /\ created[id].returned.data = created[id].row
           /\ created[id].returned.data.status = "pending" =>
                created[id].found = NULL /\ created[id].inserts = <<>>

\* A customer's creation found a mechanic, failed on the notifications and
\* threw.
C13_Witness ==
  \E id \in DOMAIN created :
    /\ created[id].client
    /\ created[id].outcome = "aborted"
    /\ created[id].found # NULL
    /\ created[id].returned.throws

\* The coordinates a call of calculate_distance was given.
Inputs == {last.lat1, last.lon1, last.lat2, last.lon2}

\* C14: calculate_distance returns NULL when any of its four inputs is
\* missing and a number when all four are present; a missing input is not
\* taken as 0.
C14_NullIffInputMissing ==
  last.op = "calculate_distance" =>
    /\ NULL \in Inputs => last.result = NULL
    /\ NULL \notin Inputs => (last.result # NULL /\ last.result \in Nat)

\* A call with only the first latitude missing, between points that are
\* 8398 km apart when that latitude is 0, returned NULL.
C14_Witness ==
  /\ last.op = "calculate_distance"
  /\ last.lat1 = NULL
  /\ last.lon1 = 0 /\ last.lat2 = 60 /\ last.lon2 = 60
  /\ last.result = NULL

\* C15: calculate_distance is symmetric: with all coordinates present, the
\* distance from A to B is the distance from B to A.
C15_Symmetric ==
  (last.op = "calculate_distance" /\ NULL \notin Inputs) =>
    last.result = calculate_distance(last.lat2, last.lon2, last.lat1, last.lon1)

\* A call between two points that differ in latitude and in longitude
\* returned a distance above 0.
C15_Witness ==
  /\ last.op = "calculate_distance"
  /\ NULL \notin Inputs
  /\ last.lat1 # last.lat2
  /\ last.lon1 # last.lon2
  /\ last.result > 0

\* C16: a creation writes nothing but the new request and its notifications:
\* every step of it leaves the users and mechanics tables, the other requests
\* and the earlier notifications as they are, and the row it commits differs
\* from the submitted one in status and mechanic_id at most.
C16_EngineFrame ==
  [][tx' # tx =>
       /\ users' = users
       /\ mechanics' = mechanics
       /\ \A id \in DOMAIN service_requests :
            id \in DOMAIN service_requests' /\ service_requests'[id] = service_requests[id]
       /\ SubSeq(notifications', 1, Len(notifications)) = notifications
       /\ DOMAIN service_requests' = DOMAIN service_requests => notifications' = notifications
       /\ \A id \in DOMAIN service_requests' \ DOMAIN service_requests :
            /\ [service_requests'[id] EXCEPT
                  !.status = created'[id].submitted.status,
                  !.mechanic_id = created'[id].submitted.mechanic_id] = created'[id].submitted
            /\ \A i \in Len(notifications) + 1 .. Len(notifications') :
                 notifications'[i].action_url[2] = id]_vars

\* A creation assigned a mechanic and the registry is as the trigger read it.
C16_Witness ==
  \E id \in DOMAIN service_requests :
    /\ created[id].found # NULL
    /\ service_requests[id] # created[id].submitted
    /\ users = created[id].read.users
    /\ mechanics = created[id].read.mechanics
    /\ Len(notifications) = 2

\* C17: there is no capacity limit and no locking. Every request stored by a
\* creation, submitted pending and without a mechanic where some eligible
\* mechanic was in range, is assigned to a nearest such mechanic and has its
\* own pair of notifications, whatever that mechanic is already assigned to and
\* whichever transactions ran beside it; the mechanic stays eligible.
NearCandidates(U, M, row) ==
  {m \in DOMAIN M : Eligible(U, M, m) /\ InRange(U, M, m, row.latitude, row.longitude)}

C17_ConcurrentWitness ==
  \E s1, s2 \in Sessions :
    /\ s1 # s2
    /\ tx[s1].pc = "insert_row"
    /\ tx[s2].pc = "insert_row"
    /\ tx[s1].found # NULL
    /\ tx[s1].found = tx[s2].found

\* C18: find_nearest_mechanic is deterministic: for the registry and the
\* location of a call, the id the call returned is the only id the query can
\* return, also when several surviving mechanics are at the same distance.
C18_Deterministic ==
  last.op = "find_nearest_mechanic" =>
    \A auth \in {a \in Auths : a.uid \notin MechanicUserIds} :
      last.result \in find_nearest_mechanic(auth, last.lat, last.lon) =>
        find_nearest_mechanic(auth, last.lat, last.lon) = {last.result}

\* C19: a position is unknown only when it was missing at sign-up: the
\* account stored by authService.signUp has the latitude and the longitude the
\* data gave, 0 included, and NULL only where the data had none.
C19_ZeroIsStored ==
  (last.op = "signUp" /\ ~last.returned.throws) =>
    /\ users[last.id].latitude = last.data.latitude
    /\ users[last.id].longitude = last.data.longitude

C20_RaceWitness ==
  \E s1, s2 \in Sessions :
    /\ s1 # s2
    /\ tx[s1].pc = "order_insert_row"
    /\ tx[s2].pc = "order_insert_row"
    /\ tx[s1].submitted.order_number = NULL_TEXT
    /\ tx[s2].submitted.order_number = NULL_TEXT
    /\ tx[s1].new.order_number = tx[s2].new.order_number

\* C21: every product's rating is the average rating of the reviews that
\* reference it (0 without reviews, in hundredths as the column stores it) and
\* its review_count is their number.
C21_RatingIsAverage ==
  \A p \in DOMAIN products :
    /\ products[p].rating = avg_rating(reviews, p)
    /\ products[p].review_count = count_reviews(reviews, p)

\* C22: an authenticated session reads a service request, or can update it,
\* only when its account is the request's customer or owns the mechanics row
\* the request is assigned to now; the account of a mechanic that is not the
\* customer is never shown a request without a mechanic or with another one.
Party(auth, row) ==
  \/ auth.uid = row.customer_id
  \/ /\ row.mechanic_id # NULL
     /\ mechanics[row.mechanic_id].user_id = auth.uid

C22_OnlyOwnOrAssigned ==
  /\ (last.op = "getServiceRequest" /\ last.auth.role = "authenticated"
        /\ ~last.returned.throws) =>
       /\ Party(last.auth, service_requests[last.id])
       /\ last.returned.data = service_requests[last.id]
       /\ (last.auth.uid \in MechanicUserIds
             /\ last.auth.uid # service_requests[last.id].customer_id) =>
            /\ service_requests[last.id].mechanic_id # NULL
            /\ mechanics[service_requests[last.id].mechanic_id].user_id = last.auth.uid
  /\ \A auth \in Auths, id \in DOMAIN service_requests, updates \in Updates :
       (auth.role = "authenticated"
          /\ ENABLED UpdateRow(auth, id, updates, "updateServiceRequest")) =>
         Party(auth, service_requests[id])

\* After an update, the account of the assigned mechanic read the request and
\* another mechanic's account was refused it.
C22_Witness ==
  /\ last.op = "getServiceRequest"
  /\ updated > 0
  /\ last.auth.uid \in MechanicUserIds
  /\ ~last.returned.throws
  /\ last.auth.uid # service_requests[last.id].customer_id
  /\ \E other \in MechanicUserIds :
       /\ other # last.auth.uid
       /\ \E m \in DOMAIN mechanics : mechanics[m].user_id = other
       /\ ~service_requests_own_or_assigned([role |-> "authenticated", uid |-> other],
                                            service_requests[last.id])

\* C23: an update that takes a request with a mechanic from a status other
\* than 'completed' to 'completed' adds exactly 1 to that mechanic's
\* total_services and leaves the other mechanics rows alone; every other
\* update, a second completion included, leaves the mechanics table unchanged.
C23_CountsCompletions ==
  [][updated' = updated + 1 =>
       LET old == service_requests[last'.id]
           new == service_requests'[last'.id]
       IN IF new.mechanic_id # NULL /\ new.status = "completed" /\ old.status # "completed"
          THEN mechanics' = [mechanics EXCEPT ![new.mechanic_id].total_services = @ + 1]
          ELSE mechanics' = mechanics]_vars

C25_BoundedRetry ==
  LET n == Len(retry.attempts)
  IN /\ n <= MAX_RETRIES + 1
     /\ MAX_RETRIES + 1 = 3
     /\ \A i \in 1..(n - 1) :
          ~retry.attempts[i].ok /\ isRetryableError(retry.attempts[i].error)
     /\ retry.pc = "returned" =>
          /\ retry.attempts[n].ok
          /\ retry.result = retry.attempts[n]
     /\ retry.pc = "thrown" =>
          /\ ~retry.attempts[n].ok
          /\ retry.result = retry.attempts[n]
          /\ ~isRetryableError(retry.attempts[n].error) \/ n = 3
     /\ retry.pc \in {"returned", "thrown"} => ~ENABLED InvokeOperation

\* The third invocation failed with a retryable error after two retryable
\* failures, and that error was thrown.
C25_Witness ==
  /\ retry.pc = "thrown"
  /\ Len(retry.attempts) = 3
  /\ isRetryableError(retry.attempts[3].error)
  /\ retry.attempts[1].error # retry.attempts[2].error

\* C26: a creation through createServiceRequest by an authenticated customer
\* for itself, where an eligible mechanic is in range, is rejected by no
\* policy: unless a write failed, the request is committed as 'assigned' with
\* its two notifications.
C26_CustomerCreationPermitted ==
  \A id \in DOMAIN created :
    LET c == created[id]
    IN (/\ c.client
        /\ c.auth.role = "authenticated"
        /\ c.submitted.customer_id = c.auth.uid
        /\ SomeoneInRange(c.read.users, c.read.mechanics, c.submitted)) =>
         \/ c.cause \in {"row failed", "notification failed"}
         \/ /\ c.outcome = "committed"
            /\ id \in DOMAIN service_requests
            /\ c.row.status = "assigned"
            /\ Len(c.inserts) = 2

\* C27: createOrder is all-or-nothing: after a call that threw, no order row
\* of that call is stored; after a call that returned, its order and every
\* one of its items are stored.
C27_AllOrNothing ==
  \A id \in DOMAIN created :
    IF created[id].returned.throws
    THEN id \notin DOMAIN orders
    ELSE /\ id \in DOMAIN orders
         /\ \A p \in created[id].items : OrderItemRow(id, p) \in order_items

\* C28: when two calls addToCart(u, p, a) and addToCart(u, p, b) have both
\* completed, both returned and the cart holds exactly one row for (u, p),
\* with the quantity it had before (0 without a row) plus a + b.
C28_NoLostUpdate ==
  (/\ DOMAIN created = {1, 2}
   /\ created[1].userId = created[2].userId
   /\ created[1].productId = created[2].productId) =>
    LET rows == {id \in DOMAIN cart : /\ cart[id].user_id = created[1].userId
                                      /\ cart[id].product_id = created[1].productId}
        previous == IF created[1].userId = 21 /\ created[1].productId = 1
                    THEN last.previous ELSE 0
    IN /\ ~created[1].returned.throws
       /\ ~created[2].returned.throws
       /\ Cardinality(rows) = 1
       /\ \A id \in rows :
            cart[id].quantity = previous + created[1].quantity + created[2].quantity

\* C29: once AuthProvider.signOut has resolved, the context's user is null,
\* also when a listener that started before the sign-out completes after it.
C29_SignedOutStaysNull ==
  auth_context.signOut = "resolved" => auth_context.user = NULL

====
